---- MODULE Spec2Model ----
(***************************************************************************)
(* Model of the database browser of rust-db-manager-tui:                   *)
(* ManagerDatabase (src/infrastructure/manager/data_base/                  *)
(* manager_database.rs), the screen state machine that the terminal driver *)
(* dispatches user input to.                                               *)
(*                                                                         *)
(* A Rust String is a sequence of tokens (each token a TLA+ string that    *)
(* stands for a run of characters: a name, a blank, a '>' ...).            *)
(* Option<T> is a sequence of length 0 (None) or 1 (Some).                 *)
(***************************************************************************)
EXTENDS Integers, Sequences, FiniteSets, TLC

\* ---------------------------------------------------------------- bounds
\* number of database names the repository and the user may use
MaxDbs == 2
\* largest number of documents find_query returns
MaxMatches == 2

\* ------------------------------------------------------------ action keys
HOME == "HOME"
STATUS == "STATUS"
TEXT_INPUT == "TEXT_INPUT"
CREATE_DATABASE == "CREATE_DATABASE"
DROP_DATABASE == "DROP_DATABASE"
SHOW_DATABASES == "SHOW_DATABASES"
SELECT_DATABASE_PANEL == "SELECT_DATABASE_PANEL"
SELECT_DATABASE == "SELECT_DATABASE"
SHOW_COLLECTIONS == "SHOW_COLLECTIONS"
SELECT_COLLECTION_PANEL == "SELECT_COLLECTION_PANEL"
SELECT_COLLECTION == "SELECT_COLLECTION"
SHOW_ELEMENTS == "SHOW_ELEMENTS"
SELECT_ELEMENTS_PANEL == "SELECT_ELEMENTS_PANEL"
SELECT_ELEMENT == "SELECT_ELEMENT"
SHOW_SELECTED == "SHOW_SELECTED"

\* the closed set of keys that manage matches
ActionKeys ==
    { HOME, STATUS, TEXT_INPUT, CREATE_DATABASE, DROP_DATABASE, SHOW_DATABASES,
      SELECT_DATABASE_PANEL, SELECT_DATABASE, SHOW_COLLECTIONS,
      SELECT_COLLECTION_PANEL, SELECT_COLLECTION, SHOW_ELEMENTS,
      SELECT_ELEMENTS_PANEL, SELECT_ELEMENT, SHOW_SELECTED }

\* ---------------------------------------------------------------- Option
None == << >>
Some(v) == << v >>
is_some(o) == Len(o) = 1
is_none(o) == Len(o) = 0
unwrap(o) == o[1]

\* ------------------------------------------------------------ text helpers
NL == << "\n" >>
ANSI_BOLD == << "<b>" >>
ANSI_RESET == << "<r>" >>
ANSI_COLOR_GREEN == << "<green>" >>
ANSI_COLOR_RED == << "<red>" >>

RECURSIVE join(_, _)
\* Vec<String>::join(sep)
join(v, sep) ==
    IF Len(v) = 0 THEN << >>
    ELSE IF Len(v) = 1 THEN v[1]
    ELSE v[1] \o sep \o join(Tail(v), sep)

RECURSIVE trim_start(_)
trim_start(s) ==
    IF Len(s) > 0 /\ s[1] = " " THEN trim_start(Tail(s)) ELSE s

RECURSIVE trim_end(_)
trim_end(s) ==
    IF Len(s) > 0 /\ s[Len(s)] = " " THEN trim_end(SubSeq(s, 1, Len(s) - 1)) ELSE s

\* str::trim
trim(s) == trim_end(trim_start(s))

RECURSIVE split(_, _)
\* str::split(delim): the fragments between the delimiters, at least one
split(s, delim) ==
    IF \E i \in 1..Len(s) : s[i] = delim
    THEN LET i == CHOOSE k \in 1..Len(s) :
                    s[k] = delim /\ \A j \in 1..(k - 1) : s[j] # delim
         IN  << SubSeq(s, 1, i - 1) >> \o split(SubSeq(s, i + 1, Len(s)), delim)
    ELSE << s >>

\* text is a contiguous part of whole
Contains(whole, part) ==
    \E i \in 0..(Len(whole) - Len(part)) :
        SubSeq(whole, i + 1, i + Len(part)) = part

\* ----------------------------------------------------- names of the model
DbPool == << "alpha", "beta", "gamma", "delta" >>
DbNames == { << DbPool[i] >> : i \in 1..MaxDbs }
DbOrder == [ i \in 1..MaxDbs |-> << DbPool[i] >> ]

\* ------------------------------------------------ the data-access service
\* The service is an external collaborator (rust_db_manager_core::Service).
\* Its state is the set dbs of the data bases of the repository; whether a call
\* succeeds (io.ok) and how many documents a query matches (io.n) are inputs.
CollectionPool == << << "users" >>, << "orders" >> >>
ElementPool == << << "id1" >>, << "id2" >> >>

Error(op) == [ message |-> << "service error: ", op >> ]
NoError == [ message |-> << >> ]
\* DBException::message
message(e) == e.message
\* Display of the error: the service's human-readable message
to_string(e) == e.message

Ok(v) == [ ok |-> TRUE, val |-> v, err |-> NoError ]
Err(e) == [ ok |-> FALSE, val |-> << >>, err |-> e ]
is_err(r) == ~r.ok

Call(op, arg) == [ op |-> op, arg |-> arg ]

service_status(io) == IF io.ok THEN Ok(<< >>) ELSE Err(Error("status"))

service_create_data_base(io, name) ==
    IF io.ok THEN Ok(name) ELSE Err(Error("create_data_base"))

service_drop_data_base(io, name) ==
    IF io.ok THEN Ok(name) ELSE Err(Error("drop_data_base"))

service_list_data_bases(dbs, io) ==
    IF io.ok THEN Ok(SelectSeq(DbOrder, LAMBDA d : d \in dbs))
    ELSE Err(Error("list_data_bases"))

service_list_collections(io, data_base) ==
    IF io.ok
    THEN Ok(IF data_base = DbOrder[1] THEN CollectionPool
            ELSE SubSeq(CollectionPool, 1, 1))
    ELSE Err(Error("list_collections"))

service_find_all_lite(io, data_base, collection) ==
    IF io.ok
    THEN Ok(IF collection = CollectionPool[1] THEN ElementPool ELSE << >>)
    ELSE Err(Error("find_all_lite"))

service_find_query(io, data_base, collection, chain) ==
    IF io.ok THEN Ok([ i \in 1..io.n |-> << "doc", ToString(i) >> ])
    ELSE Err(Error("find_query"))

\* ------------------------------------------- TerminalOption, TerminalCursor
\* TerminalOption::from_args(title, option, args, finder)
TerminalOption_from_args(title, option, args, finder) ==
    [ title |-> title, option |-> option, args |-> args, finder |-> finder ]

\* TerminalOption::from(title, option, finder): no arguments
TerminalOption_from(title, option, finder) ==
    TerminalOption_from_args(title, option, << >>, finder)

\* TerminalCursor::new(finder, header): no options yet
TerminalCursor_new(finder, header) ==
    [ owner |-> finder, text |-> header, options |-> << >> ]

\* TerminalCursor::push
push(cursor, option) ==
    [ cursor EXCEPT !.options = Append(cursor.options, option) ]

\* --------------------------------------------------------- ManagerDatabase
\* ManagerDatabase::new: the selection context, all unset
new == [ data_base |-> None, collection |-> None, element |-> None ]

\* utils: reset_element / reset_collection / reset_database, cascading downward
reset_element(self) == [ self EXCEPT !.element = None ]
reset_collection(self) == reset_element([ self EXCEPT !.collection = None ])
reset_database(self) == reset_collection([ self EXCEPT !.data_base = None ])

\* utils: the precondition checks of the drill-downs
verify_database(self) ==
    IF is_none(self.data_base)
    THEN Err([ message |-> << "No data base selected." >> ])
    ELSE Ok(<< >>)

verify_collection(self) ==
    IF is_err(verify_database(self)) THEN verify_database(self)
    ELSE IF is_none(self.collection)
    THEN Err([ message |-> << "No collection selected." >> ])
    ELSE Ok(<< >>)

verify_element(self) ==
    IF is_none(self.element)
    THEN Err([ message |-> << "No element selected." >> ])
    ELSE Ok(<< >>)

ShowOpt(o) == IF is_some(o) THEN unwrap(o) ELSE << "-" >>

\* utils: the header that shows the current selection
default_header(self) ==
    << "db: " >> \o ShowOpt(self.data_base)
        \o << " coll: " >> \o ShowOpt(self.collection)
        \o << " elem: " >>
        \o (IF is_some(self.element) THEN join(unwrap(self.element), << "." >>)
            ELSE << "-" >>)

\* utils: the header followed by an informative message
info_headers(self, text) == default_header(self) \o NL \o NL \o text

\* the keys of the home option set, in display order
HomeKeys ==
    << HOME, STATUS, CREATE_DATABASE, DROP_DATABASE, SHOW_DATABASES,
       SELECT_DATABASE_PANEL, SHOW_COLLECTIONS, SELECT_COLLECTION_PANEL,
       SHOW_ELEMENTS, SELECT_ELEMENTS_PANEL, SHOW_SELECTED >>

HomeOptions(self) ==
    [ i \in 1..Len(HomeKeys) |->
        TerminalOption_from(<< HomeKeys[i] >>, HomeKeys[i], self) ]

\* utils: the home view: the text given and the home option set
home(self, header) ==
    [ owner |-> self, text |-> header, options |-> HomeOptions(self) ]

\* utils: the home view under the default header
home_headers(self) == home(self, default_header(self))

\* The outcome of one dispatch: the cursor returned, the service calls made,
\* the repository afterwards, whether the handler panicked instead of
\* returning (then the cursor is never produced), and whether the path
\* interpreter was invoked.
Out(cursor, calls, dbs) ==
    [ cursor |-> cursor, calls |-> calls, dbs |-> dbs, abort |-> FALSE,
      interpreted |-> FALSE ]
Panic(self, calls, dbs) ==
    [ cursor |-> TerminalCursor_new(self, << >>), calls |-> calls, dbs |-> dbs,
      abort |-> TRUE, interpreted |-> FALSE ]

\* the bulleted lines of a listing: " - " and the item in bold
bullets(vector) ==
    [ i \in 1..Len(vector) |-> << " - " >> \o ANSI_BOLD \o vector[i] \o ANSI_RESET ]

\* the text of a listing: a blank line after the header only when items follow
listing(header, elements) ==
    (IF Len(elements) > 0 THEN header \o NL ELSE header)
        \o NL \o join(elements, NL)

\* mutant: the listed options target a fresh browser instead of a clone
RECURSIVE push_all_fresh(_, _, _, _)
push_all_fresh(cursor, vector, key, self) ==
    IF Len(vector) = 0 THEN cursor
    ELSE push_all_fresh(
            push(cursor,
                 TerminalOption_from_args(vector[1], key, << vector[1] >>, new)),
            Tail(vector), key, self)

\* the real options of a selection panel, one per listed name
RECURSIVE push_all(_, _, _, _)
push_all(cursor, vector, key, self) ==
    IF Len(vector) = 0 THEN cursor
    ELSE push_all(
            push(cursor,
                 TerminalOption_from_args(vector[1], key, << vector[1] >>, self)),
            Tail(vector), key, self)

\* mutant: the status probe clears the selection
status_resets(self, dbs, io) ==
    LET headers == default_header(self)
        message_ == IF is_err(service_status(io))
                    THEN ANSI_COLOR_RED \o ANSI_BOLD \o << " Status KO." >> \o ANSI_RESET
                    ELSE ANSI_COLOR_GREEN \o ANSI_BOLD \o << " Status OK." >> \o ANSI_RESET
    IN  Out(home(reset_database(self), headers \o NL \o NL \o message_),
            << Call("status", << >>) >>, dbs)

status(self, dbs, io) ==
    LET headers == default_header(self)
        message_ == IF is_err(service_status(io))
                    THEN ANSI_COLOR_RED \o ANSI_BOLD \o << " Status KO." >> \o ANSI_RESET
                    ELSE ANSI_COLOR_GREEN \o ANSI_BOLD \o << " Status OK." >> \o ANSI_RESET
    IN  Out(home(self, headers \o NL \o NL \o message_),
            << Call("status", << >>) >>, dbs)

\* mutant: a failed create falls through to the default banner
create_data_base_hides_error(self, option, dbs, io) ==
    LET args == option.args
    IN  IF Len(args) > 0
        THEN LET data_base == trim(args[1])
                 result == service_create_data_base(io, data_base)
                 calls == << Call("create_data_base", << data_base >>) >>
             IN  IF is_err(result)
                 THEN Out(home(self, info_headers(self,
                              << "Cannot create data base." >>)), calls, dbs)
                 ELSE Out(home(self, info_headers(self,
                              << "Data base '" >> \o result.val \o << "' created" >>)),
                          calls, dbs \cup { data_base })
        ELSE Out(home(self, info_headers(self, << "Cannot create data base." >>)),
                 << >>, dbs)

\* mutant: the name is handed to the service untrimmed
create_data_base_no_trim(self, option, dbs, io) ==
    LET args == option.args
    IN  IF Len(args) > 0
        THEN LET data_base == args[1]
                 result == service_create_data_base(io, data_base)
                 calls == << Call("create_data_base", << data_base >>) >>
             IN  IF is_err(result)
                 THEN Out(home(self, info_headers(self, message(result.err))),
                          calls, dbs)
                 ELSE Out(home(self, info_headers(self,
                              << "Data base '" >> \o result.val \o << "' created" >>)),
                          calls, dbs \cup { data_base })
        ELSE Out(home(self, info_headers(self, << "Cannot create data base." >>)),
                 << >>, dbs)

create_data_base(self, option, dbs, io) ==
    LET args == option.args
    IN  IF Len(args) > 0
        THEN LET data_base == trim(args[1])
                 result == service_create_data_base(io, data_base)
                 calls == << Call("create_data_base", << data_base >>) >>
             IN  IF is_err(result)
                 THEN Out(home(self, info_headers(self, message(result.err))),
                          calls, dbs)
                 ELSE Out(home(self, info_headers(self,
                              << "Data base '" >> \o result.val \o << "' created" >>)),
                          calls, dbs \cup { data_base })
        ELSE Out(home(self, info_headers(self, << "Cannot create data base." >>)),
                 << >>, dbs)

\* mutant: the selection is reset before the service's answer is looked at
drop_data_base_resets_first(self, dbs, io) ==
    IF is_some(self.data_base)
    THEN LET data_base == unwrap(self.data_base)
             result == service_drop_data_base(io, data_base)
             calls == << Call("drop_data_base", << data_base >>) >>
             reset == reset_database(self)
         IN  IF is_err(result)
             THEN Out(home(reset, info_headers(reset, message(result.err))),
                      calls, dbs)
             ELSE Out(home(reset, info_headers(reset,
                          << "Data base '" >> \o result.val \o << "' dropped" >>)),
                      calls, dbs \ { data_base })
    ELSE Out(home(self, info_headers(self, << "Cannot drop data base." >>)),
             << >>, dbs)

\* mutant: a successful drop keeps the selection
drop_data_base_no_reset(self, dbs, io) ==
    IF is_some(self.data_base)
    THEN LET data_base == unwrap(self.data_base)
             result == service_drop_data_base(io, data_base)
             calls == << Call("drop_data_base", << data_base >>) >>
         IN  IF is_err(result)
             THEN Out(home(self, info_headers(self, message(result.err))),
                      calls, dbs)
             ELSE Out(home(self, info_headers(self,
                          << "Data base '" >> \o result.val \o << "' dropped" >>)),
                      calls, dbs \ { data_base })
    ELSE Out(home(self, info_headers(self, << "Cannot drop data base." >>)),
             << >>, dbs)

drop_data_base(self, dbs, io) ==
    IF is_some(self.data_base)
    THEN LET data_base == unwrap(self.data_base)
             result == service_drop_data_base(io, data_base)
             calls == << Call("drop_data_base", << data_base >>) >>
         IN  IF is_err(result)
             THEN Out(home(self, info_headers(self, message(result.err))),
                      calls, dbs)
             ELSE LET reset == reset_database(self)
                  IN  Out(home(reset, info_headers(reset,
                              << "Data base '" >> \o result.val \o << "' dropped" >>)),
                          calls, dbs \ { data_base })
    ELSE Out(home(self, info_headers(self, << "Cannot drop data base." >>)),
             << >>, dbs)

show_databases(self, dbs, io) ==
    LET result == service_list_data_bases(dbs, io)
        header == IF is_err(result) THEN to_string(result.err)
                  ELSE info_headers(self,
                        << "The repository contains the following data bases:" >>)
        vector == IF result.ok THEN result.val ELSE << >>
    IN  Out(home(self, listing(header, bullets(vector))),
            << Call("list_data_bases", << >>) >>, dbs)

select_database_panel(self, dbs, io) ==
    LET result == service_list_data_bases(dbs, io)
        header == IF is_err(result) THEN to_string(result.err)
                  ELSE info_headers(self,
                        << "Select one of the following data bases:" >>)
        vector == IF result.ok THEN result.val ELSE << >>
        cursor == push_all(TerminalCursor_new(self, header), vector,
                           SELECT_DATABASE, self)
    IN  Out(push(cursor, TerminalOption_from(<< "[None]" >>, SELECT_DATABASE, self)),
            << Call("list_data_bases", << >>) >>, dbs)

\* mutant: selecting a data base clears the collection and the element
select_database_resets_children(self, option, dbs) ==
    LET args == option.args
        mutated == IF Len(args) > 0
                   THEN [ reset_collection(self) EXCEPT !.data_base = Some(args[1]) ]
                   ELSE reset_database(self)
    IN  Out(home_headers(mutated), << >>, dbs)

\* mutant: deselecting leaves the data base as it was
select_database_keeps(self, option, dbs) ==
    LET args == option.args
        mutated == IF Len(args) > 0
                   THEN [ self EXCEPT !.data_base = Some(args[1]) ]
                   ELSE self
    IN  Out(home_headers(mutated), << >>, dbs)

\* mutant: deselecting clears the data base alone
select_database_no_cascade(self, option, dbs) ==
    LET args == option.args
        mutated == IF Len(args) > 0
                   THEN [ self EXCEPT !.data_base = Some(args[1]) ]
                   ELSE [ self EXCEPT !.data_base = None ]
    IN  Out(home_headers(mutated), << >>, dbs)

select_database(self, option, dbs) ==
    LET args == option.args
        mutated == IF Len(args) > 0
                   THEN [ self EXCEPT !.data_base = Some(args[1]) ]
                   ELSE reset_database(self)
    IN  Out(home_headers(mutated), << >>, dbs)

show_collections(self, dbs, io) ==
    IF is_err(verify_database(self))
    THEN Out(home(self, info_headers(self, message(verify_database(self).err))),
             << >>, dbs)
    ELSE IF is_none(self.data_base) THEN Panic(self, << >>, dbs)
    ELSE
    LET result == service_list_collections(io, unwrap(self.data_base))
        header == IF is_err(result) THEN to_string(result.err)
                  ELSE info_headers(self,
                        << "The repository contains the following collections:" >>)
        vector == IF result.ok THEN result.val ELSE << >>
    IN  Out(home(self, listing(header, bullets(vector))),
            << Call("list_collections", << unwrap(self.data_base) >>) >>, dbs)

\* mutant: the panel does not append the [None] option
select_collection_panel_no_none(self, dbs, io) ==
    IF is_err(verify_database(self))
    THEN Out(home(self, info_headers(self, message(verify_database(self).err))),
             << >>, dbs)
    ELSE
    LET result == service_list_collections(io, unwrap(self.data_base))
        header == IF is_err(result) THEN to_string(result.err)
                  ELSE info_headers(self,
                        << "Select one of the following collections:" >>)
        vector == IF result.ok THEN result.val ELSE << >>
    IN  Out(push_all(TerminalCursor_new(self, header), vector,
                     SELECT_COLLECTION, self),
            << Call("list_collections", << unwrap(self.data_base) >>) >>, dbs)

select_collection_panel(self, dbs, io) ==
    IF is_err(verify_database(self))
    THEN Out(home(self, info_headers(self, message(verify_database(self).err))),
             << >>, dbs)
    ELSE IF is_none(self.data_base) THEN Panic(self, << >>, dbs)
    ELSE
    LET result == service_list_collections(io, unwrap(self.data_base))
        header == IF is_err(result) THEN to_string(result.err)
                  ELSE info_headers(self,
                        << "Select one of the following collections:" >>)
        vector == IF result.ok THEN result.val ELSE << >>
        cursor == push_all(TerminalCursor_new(self, header), vector,
                           SELECT_COLLECTION, self)
    IN  Out(push(cursor, TerminalOption_from(<< "[None]" >>, SELECT_COLLECTION, self)),
            << Call("list_collections", << unwrap(self.data_base) >>) >>, dbs)

\* mutant: deselecting clears the collection alone
select_collection_no_cascade(self, option, dbs) ==
    LET args == option.args
        mutated == IF Len(args) > 0
                   THEN [ self EXCEPT !.collection = Some(args[1]) ]
                   ELSE [ self EXCEPT !.collection = None ]
    IN  Out(home_headers(mutated), << >>, dbs)

select_collection(self, option, dbs) ==
    LET args == option.args
        mutated == IF Len(args) > 0
                   THEN [ self EXCEPT !.collection = Some(args[1]) ]
                   ELSE reset_collection(self)
    IN  Out(home_headers(mutated), << >>, dbs)

show_elements(self, dbs, io) ==
    IF is_err(verify_collection(self))
    THEN Out(home(self, info_headers(self, message(verify_collection(self).err))),
             << >>, dbs)
    ELSE IF is_none(self.data_base) \/ is_none(self.collection)
    THEN Panic(self, << >>, dbs)
    ELSE
    LET result == service_find_all_lite(io, unwrap(self.data_base),
                                        unwrap(self.collection))
        header == IF is_err(result) THEN to_string(result.err)
                  ELSE info_headers(self,
                        << "The repository contains the following items:" >>)
        vector == IF result.ok THEN result.val ELSE << >>
    IN  Out(home(self, listing(header, bullets(vector))),
            << Call("find_all_lite",
                    << unwrap(self.data_base), unwrap(self.collection) >>) >>, dbs)

\* mutant: the [None] option is pushed before the listed elements
select_element_panel_none_first(self, dbs, io) ==
    IF is_err(verify_collection(self))
    THEN Out(home(self, info_headers(self, message(verify_collection(self).err))),
             << >>, dbs)
    ELSE
    LET result == service_find_all_lite(io, unwrap(self.data_base),
                                        unwrap(self.collection))
        header == IF is_err(result) THEN to_string(result.err)
                  ELSE info_headers(self,
                        << "Select one of the following elements:" >>)
        vector == IF result.ok THEN result.val ELSE << >>
        cursor == push(TerminalCursor_new(self, header),
                       TerminalOption_from(<< "[None]" >>, SELECT_ELEMENT, self))
    IN  Out(push_all(cursor, vector, SELECT_ELEMENT, self),
            << Call("find_all_lite",
                    << unwrap(self.data_base), unwrap(self.collection) >>) >>, dbs)

select_element_panel(self, dbs, io) ==
    IF is_err(verify_collection(self))
    THEN Out(home(self, info_headers(self, message(verify_collection(self).err))),
             << >>, dbs)
    ELSE IF is_none(self.data_base) \/ is_none(self.collection)
    THEN Panic(self, << >>, dbs)
    ELSE
    LET result == service_find_all_lite(io, unwrap(self.data_base),
                                        unwrap(self.collection))
        header == IF is_err(result) THEN to_string(result.err)
                  ELSE info_headers(self,
                        << "Select one of the following elements:" >>)
        vector == IF result.ok THEN result.val ELSE << >>
        cursor == push_all(TerminalCursor_new(self, header), vector,
                           SELECT_ELEMENT, self)
    IN  Out(push(cursor, TerminalOption_from(<< "[None]" >>, SELECT_ELEMENT, self)),
            << Call("find_all_lite",
                    << unwrap(self.data_base), unwrap(self.collection) >>) >>, dbs)

select_element(self, option, dbs) ==
    LET args == option.args
        mutated == IF Len(args) > 0
                   THEN [ self EXCEPT !.element = Some(<< args[1] >>) ]
                   ELSE reset_element(self)
    IN  Out(home_headers(mutated), << >>, dbs)

\* mutant: the matches are joined by a single newline
show_selected_query_one_newline(self, dbs, io) ==
    LET r_elements == service_find_query(io, unwrap(self.data_base),
                                         unwrap(self.collection), unwrap(self.element))
        calls == << Call("find_query",
                         << unwrap(self.data_base), unwrap(self.collection) >>
                            \o unwrap(self.element)) >>
        elements == r_elements.val
        decorated == [ i \in 1..Len(elements) |->
                        << " " >> \o ANSI_BOLD \o elements[i] \o ANSI_RESET ]
    IN  IF is_err(r_elements)
        THEN Out(home(self, info_headers(self,
                    << "Cannot find enlement: " >> \o to_string(r_elements.err))),
                 calls, dbs)
        ELSE IF Len(elements) = 1
        THEN Out(home(self, info_headers(self, << "Item:" >>)
                              \o NL \o NL \o elements[1]), calls, dbs)
        ELSE Out(home(self, info_headers(self, << "Items:" >>)
                              \o NL \o NL \o join(decorated, NL)), calls, dbs)

\* show_selected once the element is known to be set: the query and its view
show_selected_query(self, dbs, io) ==
    IF is_none(self.element) \/ is_none(self.data_base)
            \/ is_none(self.collection)
    THEN Panic(self, << >>, dbs)
    ELSE
    LET r_elements == service_find_query(io, unwrap(self.data_base),
                                         unwrap(self.collection), unwrap(self.element))
        calls == << Call("find_query",
                         << unwrap(self.data_base), unwrap(self.collection) >>
                            \o unwrap(self.element)) >>
        elements == r_elements.val
        decorated == [ i \in 1..Len(elements) |->
                        << " " >> \o ANSI_BOLD \o elements[i] \o ANSI_RESET ]
    IN  IF is_err(r_elements)
        THEN Out(home(self, info_headers(self,
                    << "Cannot find enlement: " >> \o to_string(r_elements.err))),
                 calls, dbs)
        ELSE IF Len(elements) = 1
        THEN Out(home(self, info_headers(self, << "Item:" >>)
                              \o NL \o NL \o elements[1]), calls, dbs)
        ELSE Out(home(self, info_headers(self, << "Items:" >>)
                              \o NL \o NL \o join(decorated, NL \o NL)), calls, dbs)

\* mutant: the precondition check of show_selected is skipped
show_selected_unchecked(self, dbs, io) == show_selected_query(self, dbs, io)

show_selected(self, dbs, io) ==
    IF is_err(verify_element(self))
    THEN Out(home(self, info_headers(self, message(verify_element(self).err))),
             << >>, dbs)
    ELSE show_selected_query(self, dbs, io)

\* path interpreter: the leading non-empty fragments, trimmed, select the data
\* base, the collection and the element, in that order
translate_path(self, first, fragments, dbs) ==
    LET f == [ i \in 1..Len(fragments) |-> trim(fragments[i]) ]
        filled(k) == \A j \in 1..k : j <= Len(f) /\ Len(f[j]) > 0
        s1 == IF filled(1) THEN [ self EXCEPT !.data_base = Some(f[1]) ] ELSE self
        s2 == IF filled(2) THEN [ s1 EXCEPT !.collection = Some(f[2]) ] ELSE s1
        s3 == IF filled(3) THEN [ s2 EXCEPT !.element = Some(<< f[3] >>) ] ELSE s2
    IN  [ Out(home_headers(s3), << >>, dbs) EXCEPT !.interpreted = TRUE ]

\* mutant: every line is forwarded to the path interpreter
translate_query_always_path(self, option, dbs) ==
    LET args == option.args
    IN  IF Len(args) = 0 THEN Out(home_headers(self), << >>, dbs)
        ELSE LET fragments == split(args[1], ">")
                 first == trim(fragments[1])
             IN  translate_path(self, first, Tail(fragments), dbs)

translate_query(self, option, dbs) ==
    LET args == option.args
    IN  IF Len(args) = 0 THEN Out(home_headers(self), << >>, dbs)
        ELSE LET fragments == split(args[1], ">")
                 first == trim(fragments[1])
             IN  IF Len(first) = 0 \/ first = << "*" >>
                 THEN translate_path(self, first, Tail(fragments), dbs)
                 ELSE Out(home_headers(self), << >>, dbs)

\* mutant: the free-text key is the key of another action
text_input_option_home == HOME

\* IManager::text_input_option
text_input_option == TEXT_INPUT

\* mutant: the match has no arm for SHOW_ELEMENTS
manage_missing_arm(self, option, dbs, io) ==
    CASE option.option = HOME -> Out(home(self, default_header(self)), << >>, dbs)
      [] option.option = STATUS -> status(self, dbs, io)
      [] option.option = TEXT_INPUT -> translate_query(self, option, dbs)
      [] option.option = CREATE_DATABASE -> create_data_base(self, option, dbs, io)
      [] option.option = DROP_DATABASE -> drop_data_base(self, dbs, io)
      [] option.option = SHOW_DATABASES -> show_databases(self, dbs, io)
      [] option.option = SELECT_DATABASE_PANEL -> select_database_panel(self, dbs, io)
      [] option.option = SELECT_DATABASE -> select_database(self, option, dbs)
      [] option.option = SHOW_COLLECTIONS -> show_collections(self, dbs, io)
      [] option.option = SELECT_COLLECTION_PANEL -> select_collection_panel(self, dbs, io)
      [] option.option = SELECT_COLLECTION -> select_collection(self, option, dbs)
      [] option.option = SELECT_ELEMENTS_PANEL -> select_element_panel(self, dbs, io)
      [] option.option = SELECT_ELEMENT -> select_element(self, option, dbs)
      [] option.option = SHOW_SELECTED -> show_selected(self, dbs, io)
      [] OTHER -> Panic(self, << >>, dbs)

\* IManager::manage: the dispatch on the option's key
manage(self, option, dbs, io) ==
    CASE option.option = HOME -> Out(home(self, default_header(self)), << >>, dbs)
      [] option.option = STATUS -> status(self, dbs, io)
      [] option.option = TEXT_INPUT -> translate_query(self, option, dbs)
      [] option.option = CREATE_DATABASE -> create_data_base(self, option, dbs, io)
      [] option.option = DROP_DATABASE -> drop_data_base(self, dbs, io)
      [] option.option = SHOW_DATABASES -> show_databases(self, dbs, io)
      [] option.option = SELECT_DATABASE_PANEL -> select_database_panel(self, dbs, io)
      [] option.option = SELECT_DATABASE -> select_database(self, option, dbs)
      [] option.option = SHOW_COLLECTIONS -> show_collections(self, dbs, io)
      [] option.option = SELECT_COLLECTION_PANEL -> select_collection_panel(self, dbs, io)
      [] option.option = SELECT_COLLECTION -> select_collection(self, option, dbs)
      [] option.option = SHOW_ELEMENTS -> show_elements(self, dbs, io)
      [] option.option = SELECT_ELEMENTS_PANEL -> select_element_panel(self, dbs, io)
      [] option.option = SELECT_ELEMENT -> select_element(self, option, dbs)
      [] option.option = SHOW_SELECTED -> show_selected(self, dbs, io)
      [] OTHER -> Panic(self, << >>, dbs)

\* ------------------------------------------------------------ the driver
VARIABLES
    cursor,     \* the RenderState the driver holds
    repo,       \* the data bases of the repository behind the service
    pc,         \* "input": rendered and waiting for a line; "aborted": panicked
    last        \* the last dispatch: line read, request, context before, outcome

vars == << cursor, repo, pc, last >>

\* what the service may answer while the request is dispatched: success or
\* failure of the call, and the number of documents a successful query matches
\* (requests that reach no service call have one outcome)
Outcomes(request) ==
    IF request.option \in { HOME, TEXT_INPUT, SELECT_DATABASE, SELECT_COLLECTION,
                            SELECT_ELEMENT }
    THEN { [ ok |-> TRUE, n |-> 0 ] }
    ELSE IF request.option = SHOW_SELECTED
    THEN { [ ok |-> FALSE, n |-> 0 ] } \cup [ ok : { TRUE }, n : 0..MaxMatches ]
    ELSE [ ok : BOOLEAN, n : { 0 } ]

\* the lines a user types that match no option index
TextInputs ==
    { << "foo" >>, << >>, << "[None]" >>, << "99" >>,
      << "foo", ">", "alpha" >>,
      << ">", " ", "alpha", " " >>,
      << "*", ">", "beta", ">", "users" >>,
      << " ", ">", "alpha", ">", "orders", ">", "id1" >> }

\* the names a create request carries, one of them with surrounding blanks
CreateArgs == DbNames \cup { << " " >> \o DbOrder[1] \o << " " >> }

NoRequest == TerminalOption_from(<< >>, "", new)

\* ManagerDatabase::launch: the home view of the empty context
launch == home(new, default_header(new))

\* the line that names the i-th option shown
IndexLine(i) == << ToString(i) >>

\* the request a line resolves to: the option whose index it is, else a
\* synthesized request under the free-text key
resolve(shown, input) ==
    IF \E i \in 1..Len(shown.options) : input = IndexLine(i)
    THEN shown.options[CHOOSE i \in 1..Len(shown.options) : input = IndexLine(i)]
    ELSE TerminalOption_from_args(input, text_input_option, << input >>,
                                  shown.owner)

Init ==
    /\ cursor = launch
    /\ repo = { DbOrder[1] }
    /\ pc = "input"
    /\ last = [ input |-> None, label |-> FALSE, req |-> NoRequest,
                before |-> new, io |-> [ ok |-> TRUE, n |-> 0 ],
                calls |-> << >>, abort |-> FALSE, interpreted |-> FALSE ]

\* one iteration of the driver loop on the resolved request; line is the line
\* read, if the request came from one
Dispatch(request, io, line) ==
    LET out == manage(request.finder, request, repo, io)
    IN  /\ pc = "input"
        /\ cursor' = IF out.abort THEN cursor ELSE out.cursor
        /\ repo' = out.dbs
        /\ pc' = IF out.abort THEN "aborted" ELSE "input"
        /\ last' = [ input |-> line,
                     label |-> \E i \in 1..Len(cursor.options) :
                                    line = Some(cursor.options[i].title),
                     req |-> request, before |-> request.finder, io |-> io,
                     calls |-> out.calls, abort |-> out.abort,
                     interpreted |-> out.interpreted ]

\* the line read is the index of a listed option
ChooseOption ==
    \E i \in 1..Len(cursor.options) :
        LET request == resolve(cursor, IndexLine(i))
        IN  \E io \in Outcomes(request) : Dispatch(request, io, Some(IndexLine(i)))

\* any other line is dispatched under the free-text key
TypeText ==
    \E input \in TextInputs :
        LET request == resolve(cursor, input)
        IN  \E io \in Outcomes(request) : Dispatch(request, io, Some(input))

\* a create request carrying the name of the data base to create
SubmitCreate ==
    \E name \in CreateArgs :
        LET request == TerminalOption_from_args(<< CREATE_DATABASE >>,
                            CREATE_DATABASE, << name >>, cursor.owner)
        IN  \E io \in Outcomes(request) : Dispatch(request, io, None)

Next == ChooseOption \/ TypeText \/ SubmitCreate

Spec == Init /\ [][Next]_vars

\* ------------------------------------------------------------ the claims
\* what the last dispatch was
Did(key) == last.req.option = key
before == last.before
after == cursor.owner
NoArgs == Len(last.req.args) = 0
SameContext == after = before
AllUnset(self) ==
    is_none(self.data_base) /\ is_none(self.collection) /\ is_none(self.element)

\* a request with the key and arguments given, against the current owner
Request(key, args) == TerminalOption_from_args(<< key >>, key, args, cursor.owner)

\* C1: SELECT_DATABASE with an empty argument list yields an owner whose
\* database is unset, and with first argument X an owner whose database is X,
\* in every selection context the driver reaches and for every name X.
C1_SelectDatabase ==
    /\ Did(SELECT_DATABASE) =>
        IF NoArgs THEN is_none(after.data_base)
        ELSE after.data_base = Some(last.req.args[1])
    /\ is_none(select_database(cursor.owner, Request(SELECT_DATABASE, << >>),
                               repo).cursor.owner.data_base)
    /\ \A X \in DbNames :
        select_database(cursor.owner, Request(SELECT_DATABASE, << X >>),
                        repo).cursor.owner.data_base = Some(X)

\* C1 happens: the [None] option of the panel was chosen while a data base was
\* selected
C1_Witness == Did(SELECT_DATABASE) /\ NoArgs /\ is_some(before.data_base)

\* the messages of the three precondition errors
PreconditionMessages ==
    { message(verify_database(new).err), message(verify_collection(
          [ new EXCEPT !.data_base = Some(DbOrder[1]) ]).err),
      message(verify_element(new).err) }

\* the last dispatch was a drill-down whose prerequisite selection was missing
PreconditionFailed ==
    \/ (Did(SHOW_COLLECTIONS) \/ Did(SELECT_COLLECTION_PANEL))
        /\ is_none(before.data_base)
    \/ (Did(SHOW_ELEMENTS) \/ Did(SELECT_ELEMENTS_PANEL))
        /\ is_none(before.collection)
    \/ Did(SHOW_SELECTED) /\ is_none(before.element)

\* C2: a drill-down without its prerequisite selection makes no service call,
\* does not abort, and returns the precondition error banner with the home
\* option set and the selection context unchanged.
C2_PreconditionBanner ==
    PreconditionFailed =>
        /\ last.calls = << >>
        /\ ~last.abort /\ pc = "input"
        /\ \E m \in PreconditionMessages : cursor.text = info_headers(before, m)
        /\ cursor.options = HomeOptions(before)
        /\ SameContext

\* C2 happens: SHOW_SELECTED was chosen with a collection but no element
C2_Witness ==
    Did(SHOW_SELECTED) /\ is_none(before.element) /\ is_some(before.collection)

\* the argument lists tried with every key
ProbeArgs == { << >>, << DbOrder[1] >>, << << ">", "alpha", ">", "users", ">", "id1" >> >> }

\* C3: in every context the driver reaches, dispatch of any key of the closed
\* set returns a cursor: no handler panics, in particular none unwraps an
\* unset database or collection.
C3_NoAbort ==
    /\ pc # "aborted" /\ ~last.abort
    /\ \A key \in ActionKeys, args \in ProbeArgs :
        \A io \in Outcomes(Request(key, args)) :
            ~manage(cursor.owner, Request(key, args), repo, io).abort

\* C3 happens: SHOW_SELECTED passed its check and reached the unwraps
C3_Witness ==
    Did(SHOW_SELECTED) /\ is_some(before.element) /\ last.calls # << >>
        /\ pc = "input"

\* C4: collection is set only if database is set, and element only if
\* collection is set, in the owner and in the target of every option.
Hierarchy(self) ==
    /\ is_some(self.collection) => is_some(self.data_base)
    /\ is_some(self.element) => is_some(self.collection)

C4_Hierarchy ==
    /\ Hierarchy(cursor.owner)
    /\ \A i \in 1..Len(cursor.options) : Hierarchy(cursor.options[i].finder)

\* C4 happens: a deselection of the data base while an element was selected
C4_Witness ==
    Did(SELECT_DATABASE) /\ NoArgs /\ is_some(before.element)
        /\ Hierarchy(after)

\* C5: clearing cascades downward: after SELECT_DATABASE without argument or
\* a successful DROP_DATABASE all three fields are unset; after
\* SELECT_COLLECTION without argument collection and element are unset.
C5_Cascade ==
    /\ Did(SELECT_DATABASE) /\ NoArgs => AllUnset(after)
    /\ Did(DROP_DATABASE) /\ is_some(before.data_base) /\ last.io.ok
        => AllUnset(after)
    /\ Did(SELECT_COLLECTION) /\ NoArgs =>
        is_none(after.collection) /\ is_none(after.element)

\* C5 happens: the collection was deselected while an element was selected
C5_Witness ==
    Did(SELECT_COLLECTION) /\ NoArgs /\ is_some(before.element)
        /\ is_some(after.data_base)

\* C6: DROP_DATABASE with database = X calls the service's drop for X, and on
\* success the owner has database, collection and element unset (and X has
\* left the repository).
C6_Drop ==
    Did(DROP_DATABASE) /\ is_some(before.data_base) =>
        /\ last.calls = << Call("drop_data_base", << unwrap(before.data_base) >>) >>
        /\ last.io.ok => AllUnset(after) /\ unwrap(before.data_base) \notin repo

\* C6 happens: a data base with a collection selected was dropped
C6_Witness ==
    Did(DROP_DATABASE) /\ is_some(before.collection) /\ last.io.ok

\* C7: the driver loop never exits: every dispatch, whatever its key and
\* whatever the service answers, leaves the driver waiting for input again.
C7_LoopNeverExits ==
    [](pc = "input") /\ [][pc' = "input" /\ last'.req.option \in ActionKeys]_vars

\* C7 happens: the driver waits for input after a dispatch whose service call
\* failed
C7_Witness ==
    pc = "input" /\ Did(SHOW_ELEMENTS) /\ last.calls # << >> /\ ~last.io.ok

\* the last dispatch called the service and the call failed (a handler makes
\* at most one call)
ServiceFailed == last.calls # << >> /\ ~last.io.ok
ServiceMessage == message(Error(last.calls[1].op))

\* the synthetic option that ends a panel
NoneOption(key, self) == TerminalOption_from(<< "[None]" >>, key, self)

\* the collections the service returned to the last dispatch
ReturnedCollections ==
    IF last.calls # << >> /\ last.io.ok
    THEN service_list_collections(last.io, last.calls[1].arg[1]).val
    ELSE << >>

EndsWithNone(key) ==
    /\ Len(cursor.options) >= 1
    /\ cursor.options[Len(cursor.options)] = NoneOption(key, before)

\* C8 as stated: SELECT_COLLECTION_PANEL always yields as many options as the
\* service returned collections plus one, the last being the none option with no
\* arguments.
C8_Original ==
    Did(SELECT_COLLECTION_PANEL) =>
        /\ Len(cursor.options) = Len(ReturnedCollections) + 1
        /\ EndsWithNone(SELECT_COLLECTION)

\* C8 amended: SELECT_COLLECTION_PANEL with database set yields as many options
\* as the service returned collections (none when the listing failed) plus one,
\* the last being the none option with no arguments; with database unset it
\* yields the home option set.
C8_PanelCount ==
    Did(SELECT_COLLECTION_PANEL) =>
        IF is_some(before.data_base)
        THEN /\ Len(cursor.options) = Len(ReturnedCollections) + 1
             /\ EndsWithNone(SELECT_COLLECTION)
             /\ cursor.options[Len(cursor.options)].args = << >>
             /\ last.calls =
                    << Call("list_collections", << unwrap(before.data_base) >>) >>
        ELSE cursor.options = HomeOptions(before) /\ last.calls = << >>

\* C8 happens: the panel listed two collections and the none option
C8_Witness ==
    Did(SELECT_COLLECTION_PANEL) /\ Len(ReturnedCollections) = 2
        /\ Len(cursor.options) = 3

\* the panel of the key was built: its prerequisite selection was set
PanelBuilt(key) ==
    /\ Did(key)
    /\ key = SELECT_COLLECTION_PANEL => is_some(before.data_base)
    /\ key = SELECT_ELEMENTS_PANEL => is_some(before.collection)

\* C9: every selection panel ends with a "[None]" option with no arguments
\* and the matching SELECT_* key, whether or not names were listed before it;
\* when the listing fails the panel has that option alone.
PanelEndsWithNone(key, select) ==
    PanelBuilt(key) =>
        /\ EndsWithNone(select)
        /\ cursor.options[Len(cursor.options)].args = << >>
        /\ cursor.options[Len(cursor.options)].option = select
        /\ \A i \in 1..(Len(cursor.options) - 1) :
            /\ cursor.options[i].args = << cursor.options[i].title >>
            /\ cursor.options[i].title # << "[None]" >>
        /\ ServiceFailed => cursor.options = << NoneOption(select, before) >>

PanelKeys == { SELECT_DATABASE_PANEL, SELECT_COLLECTION_PANEL, SELECT_ELEMENTS_PANEL }

IncludesHomeOptions ==
    \A i \in 1..Len(HomeKeys) :
        \E j \in 1..Len(cursor.options) : cursor.options[j] = HomeOptions(after)[i]

\* C10 as stated: after any failure of a service call the text shows the
\* service's message and the options include the home option set.
C10_Original ==
    ServiceFailed => Contains(cursor.text, ServiceMessage) /\ IncludesHomeOptions

\* C10 amended: after a failed create, drop, find_query or listing of a SHOW_*
\* action the text shows the service's message and the options are the home
\* option set; a failed status shows the "Status KO." banner, not the service's
\* message, with the home option set; a selection panel whose listing failed has
\* the service's message as its text and the "[None]" option alone.
C10_ServiceFailure ==
    ServiceFailed =>
        /\ SameContext /\ ~last.abort
        /\ IF Did(STATUS)
           THEN /\ Contains(cursor.text, << " Status KO." >>)
                /\ ~Contains(cursor.text, ServiceMessage)
                /\ cursor.options = HomeOptions(after)
           ELSE IF last.req.option \in PanelKeys
           THEN /\ cursor.text = ServiceMessage
                /\ Len(cursor.options) = 1
                /\ cursor.options[1].title = << "[None]" >>
                /\ ~IncludesHomeOptions
           ELSE /\ Contains(cursor.text, ServiceMessage)
                /\ cursor.options = HomeOptions(after)

\* C10 happens: find_query failed under SHOW_SELECTED
C10_Witness == ServiceFailed /\ Did(SHOW_SELECTED)

\* the last dispatch created a data base
Created == Did(CREATE_DATABASE) /\ ~NoArgs /\ last.io.ok

\* the panel an immediately following SELECT_DATABASE_PANEL builds when its
\* listing succeeds
PanelAfterCreate ==
    select_database_panel(after, repo, [ ok |-> TRUE, n |-> 0 ]).cursor

\* the panel offers the name under SELECT_DATABASE, and choosing it selects it
OffersAndSelects(name) ==
    \E i \in 1..Len(PanelAfterCreate.options) :
        /\ PanelAfterCreate.options[i]
            = TerminalOption_from_args(name, SELECT_DATABASE, << name >>, after)
        /\ select_database(PanelAfterCreate.options[i].finder,
                           PanelAfterCreate.options[i], repo).cursor.owner.data_base
            = Some(name)

\* C11 as stated: after CREATE_DATABASE with argument N succeeds, the next
\* SELECT_DATABASE_PANEL offers an option labeled N with arguments [N] whose
\* dispatch sets database = N.
C11_Original == Created => OffersAndSelects(last.req.args[1])

\* C11 amended: after CREATE_DATABASE with argument N succeeds, the next
\* SELECT_DATABASE_PANEL whose listing succeeds offers an option labeled with N
\* trimmed of surrounding blanks, with that trimmed name as its argument, whose
\* dispatch sets database to the trimmed name.
C11_RoundTrip ==
    Created =>
        /\ trim(last.req.args[1]) \in repo
        /\ OffersAndSelects(trim(last.req.args[1]))

\* C11 happens: a data base that the repository did not hold was created
C11_Witness ==
    Created /\ last.req.args[1] = DbOrder[2] /\ Len(PanelAfterCreate.options) = 3

\* C13: every option of a cursor carries the same target, the target is the
\* cursor's owner, and the options of a selection panel carry the selection
\* context the panel was built in.
C13_Snapshot ==
    /\ \A i, j \in 1..Len(cursor.options) :
        cursor.options[i].finder = cursor.options[j].finder
    /\ \A i \in 1..Len(cursor.options) : cursor.options[i].finder = cursor.owner
    /\ last.req.option \in PanelKeys =>
        \A i \in 1..Len(cursor.options) : cursor.options[i].finder = before

\* C13 happens: the element panel listed two elements under a full selection
C13_Witness ==
    PanelBuilt(SELECT_ELEMENTS_PANEL) /\ Len(cursor.options) = 3
        /\ is_some(before.element)

\* the documents find_query returned to the last dispatch
Found == service_find_query(last.io, << >>, << >>, << >>).val

\* the last dispatch was SHOW_SELECTED with an element and the query succeeded
Queried == Did(SHOW_SELECTED) /\ is_some(before.element) /\ last.io.ok

RECURSIVE Decorated(_)
\* the documents from the k-th on, each in bold, a blank line between two
Decorated(k) ==
    << " " >> \o ANSI_BOLD \o Found[k] \o ANSI_RESET
        \o (IF k < Len(Found) THEN NL \o NL \o Decorated(k + 1) ELSE << >>)

\* C15: with exactly one match the body is that document verbatim, without
\* separator and without bold; with two or more matches the body is every
\* match in the returned order, each in bold, joined by a blank line.
C15_ShowSelected ==
    Queried =>
        /\ Len(Found) = 1 =>
            /\ cursor.text = info_headers(before, << "Item:" >>) \o NL \o NL \o Found[1]
            /\ ~Contains(cursor.text, ANSI_BOLD)
            /\ ~Contains(cursor.text, Found[1] \o NL)
        /\ Len(Found) >= 2 =>
            cursor.text = info_headers(before, << "Items:" >>) \o NL \o NL \o Decorated(1)

\* C15 happens: the query matched two or more documents
C15_Witness == Queried /\ Len(Found) >= 2 /\ Contains(cursor.text, << "Items:" >>)

\* the actions that do not select
FrameKeys ==
    { HOME, STATUS, CREATE_DATABASE, SHOW_DATABASES, SHOW_COLLECTIONS,
      SHOW_ELEMENTS, SHOW_SELECTED } \cup PanelKeys

\* C16: the selection context is all unset at construction, and HOME, STATUS,
\* CREATE_DATABASE, the SHOW_* actions and the three panels return an owner
\* with the context they were dispatched in, whatever the service answers.
C16_Frame ==
    /\ AllUnset(new)
    /\ last.req = NoRequest => AllUnset(cursor.owner)
    /\ last.req.option \in FrameKeys => SameContext

\* C16 happens: the status probe failed under a full selection
C16_Witness == Did(STATUS) /\ ~last.io.ok /\ is_some(before.element)

\* C17: DROP_DATABASE with database unset makes no service call and returns
\* the "Cannot drop data base." banner with the context unchanged; when the
\* service's drop fails the context is unchanged; the context changes only
\* when the drop succeeded.
C17_DropFrame ==
    Did(DROP_DATABASE) =>
        /\ is_none(before.data_base) =>
            /\ last.calls = << >>
            /\ cursor.text = info_headers(before, << "Cannot drop data base." >>)
            /\ SameContext
        /\ is_some(before.data_base) /\ ~last.io.ok => SameContext
        /\ ~SameContext => is_some(before.data_base) /\ last.io.ok

\* C17 happens: the drop of a data base with a collection selected failed
C17_Witness ==
    Did(DROP_DATABASE) /\ is_some(before.collection) /\ ~last.io.ok
        /\ last.calls # << >>

\* C18: a selection with an argument changes its own field alone.
C18_SelectFrame ==
    /\ Did(SELECT_DATABASE) /\ ~NoArgs =>
        /\ after.collection = before.collection
        /\ after.element = before.element
    /\ Did(SELECT_COLLECTION) /\ ~NoArgs =>
        /\ after.collection = Some(last.req.args[1])
        /\ after.data_base = before.data_base
        /\ after.element = before.element
    /\ Did(SELECT_ELEMENT) /\ ~NoArgs =>
        /\ after.element = Some(<< last.req.args[1] >>)
        /\ after.data_base = before.data_base
        /\ after.collection = before.collection

\* C18 happens: another data base was selected while a collection and an
\* element were selected
C18_Witness ==
    /\ Did(SELECT_DATABASE) /\ ~NoArgs
    /\ is_some(before.data_base) /\ before.data_base # after.data_base
    /\ is_some(before.element) /\ is_some(after.element)

\* the last dispatch was free text whose first fragment, trimmed, is neither
\* empty nor "*"
NonRoot ==
    /\ Did(TEXT_INPUT) /\ ~NoArgs
    /\ LET first == trim(split(last.req.args[1], ">")[1])
       IN  Len(first) > 0 /\ first # << "*" >>

\* C12: free text whose first fragment, trimmed, is neither empty nor "*"
\* re-renders the home view, leaves database, collection and element as they
\* were, calls no service and does not invoke the path interpreter.
C12_NonRootText ==
    NonRoot =>
        /\ cursor = home_headers(before)
        /\ SameContext
        /\ last.calls = << >>
        /\ ~last.interpreted

\* C12 happens: "foo>alpha" was typed while alpha was not the selected data base
C12_Witness ==
    NonRoot /\ last.req.args[1] = << "foo", ">", "alpha" >>
        /\ before.data_base # Some(<< "alpha" >>)

\* C14: a line that is the index of a listed option dispatches that option
\* unchanged; any other line, also one equal to an option's label, is
\* dispatched as a request with key TEXT_INPUT, the line as its only argument
\* and the current owner as target, and is handled by the free-text transition.
C14_InputResolution ==
    [][ Len(last'.input) = 1 =>
          LET line == last'.input[1]
          IN  IF \E i \in 1..Len(cursor.options) : line = IndexLine(i)
              THEN \E i \in 1..Len(cursor.options) :
                      line = IndexLine(i) /\ last'.req = cursor.options[i]
              ELSE /\ last'.req = [ title |-> line, option |-> TEXT_INPUT,
                                    args |-> << line >>, finder |-> cursor.owner ]
                   /\ cursor' = translate_query(cursor.owner, last'.req, repo).cursor
                   /\ pc' = "input" ]_vars

\* C14 happens: the label of a listed option was typed and went to free text
C14_Witness ==
    last.label /\ last.input = Some(<< "[None]" >>) /\ Did(TEXT_INPUT)

====
